---- MODULE Spec2Model ----
(***************************************************************************)
(* Paster: the paste engine (commands.rs) and the global-shortcut glue     *)
(* (main.rs).  The state is the managed Mutex<PasteState>, the managed     *)
(* Mutex<GlobalShortcutState>, the OS resources the commands act on (the   *)
(* clipboard, the injected input stream, the global shortcut table, the    *)
(* shortcut_config.json file) and the position of every in-flight command. *)
(* One action is one lock scope or one OS call sequence of a command: the  *)
(* async paste command releases the PasteState lock between its steps, so  *)
(* other commands interleave exactly there.                                *)
(***************************************************************************)
EXTENDS Integers, Sequences, FiniteSets, TLC

\* ------------------------------------------------------------------ bounds
MaxLen == 2        \* code units in the clipboard buffer before its final 0
NumTasks == 2      \* concurrently running paste tasks
MaxCalls == 3      \* command invocations in one behaviour
Width == 8         \* bits of the machine word that stands for u32

\* ------------------------------------------------------- program constants
CR == 13           \* '\r', dropped by get_clipboard
LF == 10           \* '\n', sent as VK_RETURN by paste
VK_RETURN == 13    \* windows VIRTUAL_KEY 0x0D

Tasks == 1..NumTasks

\* The paste tasks of the race specification: one more, for the call that
\* is waiting at its test-and-set while another call cancels a playback.
RaceTasks == 1..(NumTasks + 1)

\* The code units a clipboard buffer is built from: the terminator, the two
\* line-break units and one ordinary character.
Alphabet == {0, LF, CR, 97}

\* GlobalLock hands out a buffer that ends with a zero unit.
ClipboardBuffers == {b \o <<0>> : b \in [1..MaxLen -> Alphabet]}

\* ------------------------------------------------------------ HotkeyConfig
HotkeyConfig(alt, ctrl, shift, left_ctrl, right_ctrl, key, intercept_ctrl_v) ==
    [alt |-> alt, ctrl |-> ctrl, shift |-> shift, left_ctrl |-> left_ctrl,
     right_ctrl |-> right_ctrl, key |-> key, intercept_ctrl_v |-> intercept_ctrl_v]

DefaultConfig == HotkeyConfig(TRUE, TRUE, FALSE, FALSE, FALSE, "V", FALSE)

\* The configurations the front end submits and the file may hold: the
\* default, one without any modifier, one that only intercepts Ctrl+V, and
\* one using the left Ctrl key.
SampleConfigs ==
    { DefaultConfig,
      HotkeyConfig(FALSE, FALSE, FALSE, FALSE, FALSE, "V", FALSE),
      HotkeyConfig(FALSE, FALSE, FALSE, FALSE, FALSE, "V", TRUE),
      HotkeyConfig(FALSE, FALSE, TRUE, TRUE, FALSE, "B", FALSE) }

\* Every HotkeyConfig over two key names.
Keys == {"V", "B"}
AllConfigs ==
    { HotkeyConfig(a, c, s, l, r, k, v) :
        a \in BOOLEAN, c \in BOOLEAN, s \in BOOLEAN, l \in BOOLEAN,
        r \in BOOLEAN, k \in Keys, v \in BOOLEAN }

\* Vec<String>::join("+"): a string is kept as its sequence of tokens.
RECURSIVE Join(_)
Join(parts) ==
    IF Len(parts) <= 1 THEN parts
    ELSE <<Head(parts), "+">> \o Join(Tail(parts))

\* to_tauri_accelerator that tests left_ctrl before ctrl.
to_tauri_accelerator_left_first(c) ==
    IF c.intercept_ctrl_v THEN <<"Control", "+", "V">>
    ELSE Join( (IF c.alt THEN <<"Alt">> ELSE <<>>)
            \o (IF c.left_ctrl THEN <<"ControlLeft">>
                ELSE IF c.ctrl THEN <<"Control">>
                ELSE IF c.right_ctrl THEN <<"ControlRight">>
                ELSE <<>>)
            \o (IF c.shift THEN <<"Shift">> ELSE <<>>)
            \o <<c.key>> )

to_tauri_accelerator(c) ==
    IF c.intercept_ctrl_v THEN <<"Control", "+", "V">>
    ELSE Join( (IF c.alt THEN <<"Alt">> ELSE <<>>)
            \o (IF c.ctrl THEN <<"Control">>
                ELSE IF c.left_ctrl THEN <<"ControlLeft">>
                ELSE IF c.right_ctrl THEN <<"ControlRight">>
                ELSE <<>>)
            \o (IF c.shift THEN <<"Shift">> ELSE <<>>)
            \o <<c.key>> )

\* get_description that puts Shift before the Ctrl name.
get_description_shift_first(c) ==
    IF c.intercept_ctrl_v THEN <<"SystemCtrlV(intercepted)">>
    ELSE Join( (IF c.alt THEN <<"Alt">> ELSE <<>>)
            \o (IF c.shift THEN <<"Shift">> ELSE <<>>)
            \o (IF c.ctrl THEN <<"Ctrl">>
                ELSE IF c.left_ctrl THEN <<"LeftCtrl">>
                ELSE IF c.right_ctrl THEN <<"RightCtrl">>
                ELSE <<>>)
            \o <<c.key>> )

get_description(c) ==
    IF c.intercept_ctrl_v THEN <<"SystemCtrlV(intercepted)">>
    ELSE Join( (IF c.alt THEN <<"Alt">> ELSE <<>>)
            \o (IF c.ctrl THEN <<"Ctrl">>
                ELSE IF c.left_ctrl THEN <<"LeftCtrl">>
                ELSE IF c.right_ctrl THEN <<"RightCtrl">>
                ELSE <<>>)
            \o (IF c.shift THEN <<"Shift">> ELSE <<>>)
            \o <<c.key>> )

\* IsValid with the intercept test negated.
IsValid_intercept_negated(c) ==
    ~( ~(c.alt \/ c.ctrl \/ c.shift \/ c.left_ctrl \/ c.right_ctrl)
       /\ c.intercept_ctrl_v )

\* update_shortcut step 1: the legality test.
IsValid(c) ==
    ~( ~(c.alt \/ c.ctrl \/ c.shift \/ c.left_ctrl \/ c.right_ctrl)
       /\ ~c.intercept_ctrl_v )

\* ----------------------------------------------------------- get_clipboard
\* CopyLoop without the '\r' test.
RECURSIVE CopyLoop_keeps_cr(_, _, _)
CopyLoop_keeps_cr(data, i, result) ==
    LET item == data[i] IN
    IF item = 0 THEN result
    ELSE CopyLoop_keeps_cr(data, i + 1, Append(result, item))

\* The copy loop: read units from index i on until the zero unit, drop '\r'.
RECURSIVE CopyLoop(_, _, _)
CopyLoop(data, i, result) ==
    LET item == data[i] IN
    IF item = 0 THEN result
    ELSE IF item = CR THEN CopyLoop(data, i + 1, result)
    ELSE CopyLoop(data, i + 1, Append(result, item))

\* The success of the four OS calls get_clipboard makes.
OsOutcomes == [open : BOOLEAN, data : BOOLEAN, unlock : BOOLEAN, close : BOOLEAN]

\* OsCalls without the CloseClipboard of the GetClipboardData error path.
OsCalls_no_close_on_data_error(os) ==
    IF ~os.open THEN << "OpenClipboard" >>
    ELSE IF ~os.data THEN << "OpenClipboard", "GetClipboardData" >>
    ELSE << "OpenClipboard", "GetClipboardData", "GlobalLock", "GlobalUnlock",
            "CloseClipboard" >>

\* The OS calls get_clipboard makes under the given outcomes, in order.
\* GetClipboardData and GlobalUnlock close the clipboard when they fail.
OsCalls(os) ==
    IF ~os.open THEN << "OpenClipboard" >>
    ELSE IF ~os.data THEN << "OpenClipboard", "GetClipboardData", "CloseClipboard" >>
    ELSE << "OpenClipboard", "GetClipboardData", "GlobalLock", "GlobalUnlock",
            "CloseClipboard" >>

\* The process has the clipboard open after these calls: OpenClipboard
\* succeeded and no CloseClipboard followed.
HeldAfter(os_calls, os) ==
    os.open /\ \A k \in 1..Len(os_calls) : os_calls[k] # "CloseClipboard"

\* get_clipboard under the given OS outcomes: the Result it returns and
\* whether the clipboard is still open when it returns.
get_clipboard(data, os) ==
    LET held == HeldAfter(OsCalls(os), os) IN
    IF ~os.open THEN
        [ok |-> FALSE, err |-> "ClipboardOpenFailed", units |-> <<>>, held |-> held]
    ELSE IF ~os.data THEN
        [ok |-> FALSE, err |-> "ClipboardDataUnavailable", units |-> <<>>,
         held |-> held]
    ELSE IF ~os.unlock THEN
        [ok |-> FALSE, err |-> "ClipboardUnlockFailed", units |-> <<>>,
         held |-> held]
    ELSE IF ~os.close THEN
        [ok |-> FALSE, err |-> "ClipboardCloseFailed", units |-> <<>>, held |-> held]
    ELSE
        [ok |-> TRUE, err |-> "none", units |-> CopyLoop(data, 1, <<>>),
         held |-> held]

\* ------------------------------------------------------------------- input
\* The two INPUT records one SendInput call of paste carries for unit ch.
KeyInput(ch) ==
    IF ch = LF THEN
        << [wVk |-> VK_RETURN, wScan |-> 0, dwFlags |-> {}],
           [wVk |-> VK_RETURN, wScan |-> 0, dwFlags |-> {"KEYUP"}] >>
    ELSE
        << [wVk |-> 0, wScan |-> ch, dwFlags |-> {"UNICODE"}],
           [wVk |-> 0, wScan |-> ch, dwFlags |-> {"UNICODE", "KEYUP"}] >>

\* Option<T>: None, or Some(x).
None == <<>>
Some(x) == <<x>>

\* ------------------------------------------------------------------- delay
\* u32, scaled to Width bits.
Modulus == 2 ^ Width
MaxU == Modulus - 1

\* The stand and float arguments of paste, and the values of rand::random.
PasteArgs == [stand : {0, 50, MaxU}, float : {0, 1, 30, MaxU}]
Randoms == {0, 29, MaxU}

\* `stand + random % float` in u32: the remainder panics on a zero divisor;
\* an overflowing sum wraps around without overflow checks (release
\* profile) and panics with them (dev profile).
DelayOutcomes(stand, float, random) ==
    IF float = 0 THEN {[panic |-> TRUE, delay |-> 0]}
    ELSE LET sum == stand + (random % float)
         IN  IF sum < Modulus THEN {[panic |-> FALSE, delay |-> sum]}
             ELSE {[panic |-> FALSE, delay |-> sum % Modulus],
                   [panic |-> TRUE, delay |-> 0]}

\* ------------------------------------------------------------------- state
VARIABLES
    is_paused,            \* PasteState.is_paused
    shortcut,             \* PasteState.shortcut
    is_pasting,           \* PasteState.is_pasting
    registered_shortcut,  \* GlobalShortcutState.registered_shortcut, an Option
    os_shortcuts,         \* accelerators bound in the global shortcut manager
    config_file,          \* shortcut_config.json: missing, unparsable or a HotkeyConfig
    tray_title,           \* title of the tray menu item "pause"
    clipboard,            \* the clipboard's CF_UNICODETEXT buffer
    clip_held,            \* the process holds the clipboard open
    input_stream,         \* SendInput calls received by the foreground window, in order
    pc,                   \* per paste task: where it is in paste()
    utf16_units,          \* per paste task: units read from the clipboard
    i,                    \* per paste task: units sent so far
    sent,                 \* per paste task: SendInput calls of its current/last call
    result,               \* per paste task: what its last call returned and on which path
    entry_pasting,        \* per paste task in flight: is_pasting when it was invoked
    polled,               \* how many units each task in a loop had polled for when
                          \* the cancel request since the latest paste call was made,
                          \* and whether it was asleep
    upd,                  \* the update_shortcut call in flight, if any
    upd_result,           \* what the last update_shortcut returned
    toggle_result,        \* what the last toggle_pause returned, an Option
    paused_before,        \* is_paused before each of the last consecutive toggle_pause calls
    n_paste,              \* paste invocations so far
    calls,                \* command invocations so far
    fmt,                  \* the HotkeyConfig last formatted, and the strings made of it
    paste_args,           \* the stand and float arguments the front end passes to paste
    delay,                \* per paste task: Some(its delay in ms) while it sleeps
    save_result,          \* what save_shortcut_config returned to the update_shortcut
                          \* call in flight or last returned: "none", "Ok" or "Err"
    upd_errs,             \* update_shortcut calls that have returned Err so far
    lock,                 \* the paste task that holds the Mutex<PasteState> ahead of
                          \* the rest of its critical section, an Option
    raced                 \* per paste task at its test-and-set: another call has
                          \* been at its test-and-set at the same time

vars == << is_paused, shortcut, is_pasting, registered_shortcut, os_shortcuts,
           config_file, tray_title, clipboard, clip_held, input_stream,
           pc, utf16_units, i, sent, result, entry_pasting, polled, upd,
           upd_result,
           toggle_result, paused_before, n_paste, calls, fmt, paste_args,
           delay, save_result, upd_errs, lock, raced >>

pasteVars == << is_pasting, clip_held, input_stream, pc, utf16_units, i, sent,
                result, entry_pasting, polled, n_paste, delay, raced, lock >>
configVars == << shortcut, registered_shortcut, os_shortcuts, config_file,
                 upd, upd_result, save_result, upd_errs >>
pauseVars == << is_paused, tray_title, toggle_result, paused_before >>
callerVars == << fmt, paste_args >>

NoResult == [ret |-> "none", path |-> "none"]
NoUpdate == [pc |-> "idle", config |-> DefaultConfig]
NoUpdateResult == [ok |-> FALSE, value |-> <<"none">>, config |-> DefaultConfig]
NoFormat == [config |-> DefaultConfig, accelerator |-> None, description |-> None]

\* A paste task is inside the for loop of paste().
InLoop(p) == pc[p] \in {"poll", "send", "sleep"}

\* A paste task is past the test-and-set and has not returned.
Playing(p) == pc[p] \in {"read", "poll", "send", "sleep", "finish"}

\* ------------------------------------------------- register_global_shortcut
\* main.rs register_global_shortcut: drop the recorded accelerator, then try
\* to bind the new one; os_ok is the outcome of GlobalShortcutManager::register.
register_global_shortcut(registered, bound, config, os_ok) ==
    LET accelerator == to_tauri_accelerator(config)
        unbound == IF registered # None THEN bound \ {registered[1]} ELSE bound
    IN  IF os_ok
        THEN [registered |-> Some(accelerator), bound |-> unbound \cup {accelerator},
              ok |-> TRUE]
        ELSE [registered |-> registered, bound |-> unbound, ok |-> FALSE]

\* main.rs load_shortcut_config: the default unless the file parses.
load_shortcut_config(file) ==
    IF file.state \in {"missing", "corrupt"} THEN DefaultConfig ELSE file.config

\* The contents shortcut_config.json can have.
FileMissing == [state |-> "missing", config |-> DefaultConfig]
FileCorrupt == [state |-> "corrupt", config |-> DefaultConfig]
FileWith(c) == [state |-> "json", config |-> c]

\* -------------------------------------------------------------------- Init
\* The state when main's setup closure has run: PasteState::new(), the
\* shortcut replaced by the loaded one, and one attempt to register it.
Init ==
    /\ config_file \in {FileMissing, FileCorrupt} \cup {FileWith(c) : c \in SampleConfigs}
    /\ clipboard \in ClipboardBuffers
    /\ is_paused = FALSE
    /\ is_pasting = FALSE
    /\ shortcut = load_shortcut_config(config_file)
    /\ \E os_ok \in BOOLEAN :
          LET r == register_global_shortcut(None, {}, shortcut, os_ok)
          IN  /\ registered_shortcut = r.registered
              /\ os_shortcuts = r.bound
    /\ tray_title = "Pause"
    /\ clip_held = FALSE
    /\ input_stream = <<>>
    /\ pc = [p \in RaceTasks |-> "idle"]
    /\ utf16_units = [p \in RaceTasks |-> <<>>]
    /\ i = [p \in RaceTasks |-> 0]
    /\ sent = [p \in RaceTasks |-> <<>>]
    /\ result = [p \in RaceTasks |-> NoResult]
    /\ entry_pasting = [p \in RaceTasks |-> FALSE]
    /\ polled = {}
    /\ upd = NoUpdate
    /\ upd_result = NoUpdateResult
    /\ toggle_result = None
    /\ paused_before = <<>>
    /\ n_paste = 0
    /\ calls = 0
    /\ fmt = NoFormat
    /\ paste_args \in PasteArgs
    /\ delay = [p \in RaceTasks |-> None]
    /\ raced = [p \in RaceTasks |-> FALSE]
    /\ save_result = "none"
    /\ upd_errs = 0
    /\ lock = None

\* ------------------------------------------------------------------- paste
\* paste() returns ret on the given path; its locals are dropped.
Return(p, ret, path) ==
    /\ pc' = [pc EXCEPT ![p] = "idle"]
    /\ result' = [result EXCEPT ![p] = [ret |-> ret, path |-> path]]
    /\ utf16_units' = [utf16_units EXCEPT ![p] = <<>>]
    /\ i' = [i EXCEPT ![p] = 0]
    /\ entry_pasting' = [entry_pasting EXCEPT ![p] = FALSE]

\* paste_check_paused without the early return.
paste_check_paused_ignores_pause(p) ==
    /\ pc[p] = "idle"
    /\ lock \in {None, Some(p)}
    /\ lock' = None
    /\ lock = Some(p) \/ \A q \in Tasks : q < p => pc[q] # "idle"
    /\ calls < MaxCalls
    /\ calls' = calls + 1
    /\ n_paste' = n_paste + 1
    /\ sent' = [sent EXCEPT ![p] = <<>>]
    /\ polled' = {}
    /\ pc' = [pc EXCEPT ![p] = "test_and_set"]
    /\ result' = [result EXCEPT ![p] = NoResult]
    /\ entry_pasting' = [entry_pasting EXCEPT ![p] = is_pasting]
    /\ raced' = [q \in RaceTasks |->
               IF q = p
               THEN \E r \in RaceTasks \ {p} : pc[r] = "test_and_set"
               ELSE pc[q] = "test_and_set"]
    /\ UNCHANGED << utf16_units, i >>
    /\ UNCHANGED << is_pasting, clip_held, input_stream, clipboard >>
    /\ UNCHANGED << configVars, pauseVars, callerVars, delay >>

\* paste() step 1: the command is invoked and reads is_paused under the lock.
\* The runtime gives the call the first free task.
paste_check_paused(p) ==
    /\ pc[p] = "idle"
    /\ lock \in {None, Some(p)}
    /\ lock' = None
    /\ lock = Some(p) \/ \A q \in Tasks : q < p => pc[q] # "idle"
    /\ calls < MaxCalls
    /\ calls' = calls + 1
    /\ n_paste' = n_paste + 1
    /\ sent' = [sent EXCEPT ![p] = <<>>]
    /\ polled' = {}
    /\ IF is_paused
       THEN /\ Return(p, "Suspended", "paused")
            /\ UNCHANGED raced
       ELSE /\ pc' = [pc EXCEPT ![p] = "test_and_set"]
            /\ result' = [result EXCEPT ![p] = NoResult]
            /\ entry_pasting' = [entry_pasting EXCEPT ![p] = is_pasting]
            /\ raced' = [q \in RaceTasks |->
                           IF q = p
                           THEN \E r \in RaceTasks \ {p} : pc[r] = "test_and_set"
                           ELSE pc[q] = "test_and_set"]
            /\ UNCHANGED << utf16_units, i >>
    /\ UNCHANGED << is_pasting, clip_held, input_stream, clipboard >>
    /\ UNCHANGED << configVars, pauseVars, callerVars, delay >>

\* paste_test_and_set that sets is_pasting without loading it first.
paste_test_and_set_blind(p) ==
    /\ pc[p] = "test_and_set"
    /\ lock \in {None, Some(p)}
    /\ lock' = None
    /\ is_pasting' = TRUE
    /\ pc' = [pc EXCEPT ![p] = "read"]
    /\ UNCHANGED << polled, result, utf16_units, i, entry_pasting >>
    /\ UNCHANGED << clip_held, input_stream, clipboard, sent, n_paste, calls >>
    /\ raced' = [raced EXCEPT ![p] = FALSE]
    /\ UNCHANGED << configVars, pauseVars, callerVars, delay >>

\* paste_test_and_set whose cancel branch returns without the store.
paste_test_and_set_no_clear(p) ==
    /\ pc[p] = "test_and_set"
    /\ lock \in {None, Some(p)}
    /\ lock' = None
    /\ IF is_pasting
       THEN /\ is_pasting' = is_pasting
            /\ polled' = {[task |-> q, asleep |-> pc[q] = "sleep",
                             n |-> IF pc[q] = "poll" THEN i[q] ELSE i[q] + 1] :
                            q \in {t \in RaceTasks \ {p} : InLoop(t)}}
            /\ Return(p, "Ok", "cancel_request")
       ELSE /\ is_pasting' = TRUE
            /\ pc' = [pc EXCEPT ![p] = "read"]
            /\ UNCHANGED << polled, result, utf16_units, i, entry_pasting >>
    /\ UNCHANGED << clip_held, input_stream, clipboard, sent, n_paste, calls >>
    /\ raced' = [raced EXCEPT ![p] = FALSE]
    /\ UNCHANGED << configVars, pauseVars, callerVars, delay >>

\* paste() step 2: under the lock, load is_pasting; if set, clear it and
\* return Ok, else set it.
paste_test_and_set(p) ==
    /\ pc[p] = "test_and_set"
    /\ lock \in {None, Some(p)}
    /\ lock' = None
    /\ IF is_pasting
       THEN /\ is_pasting' = FALSE
            /\ polled' = {[task |-> q, asleep |-> pc[q] = "sleep",
                             n |-> IF pc[q] = "poll" THEN i[q] ELSE i[q] + 1] :
                            q \in {t \in RaceTasks \ {p} : InLoop(t)}}
            /\ Return(p, "Ok", "cancel_request")
       ELSE /\ is_pasting' = TRUE
            /\ pc' = [pc EXCEPT ![p] = "read"]
            /\ UNCHANGED << polled, result, utf16_units, i, entry_pasting >>
    /\ UNCHANGED << clip_held, input_stream, clipboard, sent, n_paste, calls >>
    /\ raced' = [raced EXCEPT ![p] = FALSE]
    /\ UNCHANGED << configVars, pauseVars, callerVars, delay >>

\* paste() step 3: get_clipboard()?; an Err leaves the function at once.
paste_get_clipboard(p) ==
    /\ pc[p] = "read"
    /\ UNCHANGED lock
    /\ \E os \in OsOutcomes :
          LET r == get_clipboard(clipboard, os) IN
          /\ clip_held' = (clip_held \/ r.held)
          /\ IF r.ok
             THEN /\ utf16_units' = [utf16_units EXCEPT ![p] = r.units]
                  /\ i' = [i EXCEPT ![p] = 0]
                  /\ pc' = [pc EXCEPT ![p] =
                               IF Len(r.units) = 0 THEN "finish" ELSE "poll"]
                  /\ UNCHANGED << result, entry_pasting >>
             ELSE Return(p, r.err, "read_failed")
    /\ UNCHANGED << is_pasting, input_stream, clipboard, sent, polled, n_paste, calls >>
    /\ UNCHANGED << configVars, pauseVars, callerVars, delay, raced >>

\* A paste task gets the Mutex<PasteState> at the top of one of its four
\* critical sections; the section itself runs in the task's next step.
paste_lock(p) ==
    /\ lock = None
    /\ \/ pc[p] \in {"test_and_set", "poll", "finish"}
       \/ /\ pc[p] = "idle"
          /\ \A q \in Tasks : q < p => pc[q] # "idle"
          /\ calls < MaxCalls
    /\ lock' = Some(p)
    /\ UNCHANGED << is_pasting, clip_held, input_stream, pc, utf16_units, i, sent,
                    result, entry_pasting, polled, n_paste, delay, raced >>
    /\ UNCHANGED << clipboard, calls >>
    /\ UNCHANGED << configVars, pauseVars, callerVars >>

\* paste_poll whose guard lives on to the end of the iteration.
paste_poll_keeps_lock(p) ==
    /\ pc[p] = "poll"
    /\ lock \in {None, Some(p)}
    /\ IF ~is_pasting
       THEN /\ is_pasting' = FALSE
            /\ lock' = None
            /\ Return(p, "Ok", "interrupted")
       ELSE /\ pc' = [pc EXCEPT ![p] = "send"]
            /\ lock' = Some(p)
            /\ UNCHANGED << is_pasting, result, utf16_units, i, entry_pasting >>
    /\ UNCHANGED << clip_held, input_stream, clipboard, sent, polled, n_paste, calls >>
    /\ UNCHANGED << configVars, pauseVars, callerVars, delay, raced >>

\* paste_poll without the is_pasting test.
paste_poll_never_stops(p) ==
    /\ pc[p] = "poll"
    /\ lock \in {None, Some(p)}
    /\ lock' = None
    /\ pc' = [pc EXCEPT ![p] = "send"]
    /\ UNCHANGED << is_pasting, result, utf16_units, i, entry_pasting >>
    /\ UNCHANGED << clip_held, input_stream, clipboard, sent, polled, n_paste, calls >>
    /\ UNCHANGED << configVars, pauseVars, callerVars, delay, raced >>

\* paste_poll that also stops when is_paused is set.
paste_poll_stops_on_pause(p) ==
    /\ pc[p] = "poll"
    /\ lock \in {None, Some(p)}
    /\ lock' = None
    /\ IF ~is_pasting \/ is_paused
       THEN /\ is_pasting' = FALSE
            /\ Return(p, "Ok", "interrupted")
       ELSE /\ pc' = [pc EXCEPT ![p] = "send"]
            /\ UNCHANGED << is_pasting, result, utf16_units, i, entry_pasting >>
    /\ UNCHANGED << clip_held, input_stream, clipboard, sent, polled, n_paste, calls >>
    /\ UNCHANGED << configVars, pauseVars, callerVars, delay, raced >>

\* paste() step 4, top of an iteration: under the lock, stop when is_pasting
\* has been cleared.
paste_poll(p) ==
    /\ pc[p] = "poll"
    /\ lock \in {None, Some(p)}
    /\ lock' = None
    /\ IF ~is_pasting
       THEN /\ is_pasting' = FALSE
            /\ Return(p, "Ok", "interrupted")
       ELSE /\ pc' = [pc EXCEPT ![p] = "send"]
            /\ UNCHANGED << is_pasting, result, utf16_units, i, entry_pasting >>
    /\ UNCHANGED << clip_held, input_stream, clipboard, sent, polled, n_paste, calls >>
    /\ UNCHANGED << configVars, pauseVars, callerVars, delay, raced >>

\* paste() step 4: SendInput for the current unit, then the delay is
\* computed and the task sleeps; a panic ends the task where it is.
paste_send_input(p) ==
    /\ pc[p] = "send"
    /\ UNCHANGED lock
    /\ LET ch == utf16_units[p][i[p] + 1] IN
          /\ input_stream' = Append(input_stream, KeyInput(ch))
          /\ sent' = [sent EXCEPT ![p] = Append(@, KeyInput(ch))]
    /\ \E o \in UNION { DelayOutcomes(paste_args.stand, paste_args.float, random) :
                         random \in Randoms } :
          IF o.panic
          THEN /\ Return(p, "panic", "panicked")
               /\ UNCHANGED delay
          ELSE /\ delay' = [delay EXCEPT ![p] = Some(o.delay)]
               /\ pc' = [pc EXCEPT ![p] = "sleep"]
               /\ UNCHANGED << utf16_units, i, result, entry_pasting >>
    /\ UNCHANGED << is_pasting, clip_held, clipboard, polled, n_paste, calls >>
    /\ UNCHANGED << configVars, pauseVars, callerVars, raced >>

\* paste() step 4: the sleep ends, i += 1, and the for loop takes the next
\* unit or ends.
paste_wake(p) ==
    /\ pc[p] = "sleep"
    /\ UNCHANGED lock
    /\ i' = [i EXCEPT ![p] = @ + 1]
    /\ pc' = [pc EXCEPT ![p] =
                 IF i[p] + 1 < Len(utf16_units[p]) THEN "poll" ELSE "finish"]
    /\ UNCHANGED << is_pasting, clip_held, input_stream, clipboard, utf16_units,
                    sent, result, entry_pasting, polled, n_paste, calls >>
    /\ delay' = [delay EXCEPT ![p] = None]
    /\ UNCHANGED << configVars, pauseVars, callerVars, raced >>

\* paste() step 5: under the lock, clear is_pasting and return Ok.
paste_finish(p) ==
    /\ pc[p] = "finish"
    /\ lock \in {None, Some(p)}
    /\ lock' = None
    /\ is_pasting' = FALSE
    /\ Return(p, "Ok", "completed")
    /\ UNCHANGED << clip_held, input_stream, clipboard, sent, polled, n_paste, calls >>
    /\ UNCHANGED << configVars, pauseVars, callerVars, delay, raced >>

\* ------------------------------------------------------------ toggle_pause
\* toggle_pause that only ever pauses.
toggle_pause_sets_true ==
    /\ calls < MaxCalls
    /\ lock = None
    /\ calls' = calls + 1
    /\ is_paused' = TRUE
    /\ toggle_result' = Some(is_paused')
    /\ paused_before' = IF Len(paused_before) = 2
                         THEN <<paused_before[2], is_paused>>
                         ELSE Append(paused_before, is_paused)
    /\ UNCHANGED << tray_title, clipboard >>
    /\ UNCHANGED << pasteVars, configVars, callerVars >>

\* The toggle_pause command: flip is_paused under the lock, return it.
toggle_pause ==
    /\ calls < MaxCalls
    /\ lock = None
    /\ calls' = calls + 1
    /\ is_paused' = ~is_paused
    /\ toggle_result' = Some(is_paused')
    /\ paused_before' = IF Len(paused_before) = 2
                         THEN <<paused_before[2], is_paused>>
                         ELSE Append(paused_before, is_paused)
    /\ UNCHANGED << tray_title, clipboard >>
    /\ UNCHANGED << pasteVars, configVars, callerVars >>

\* main.rs, tray menu item "pause": flip is_paused and retitle the item.
tray_pause ==
    /\ calls < MaxCalls
    /\ lock = None
    /\ calls' = calls + 1
    /\ is_paused' = ~is_paused
    /\ tray_title' = IF is_paused' THEN "Resume" ELSE "Pause"
    /\ paused_before' = <<>>
    /\ UNCHANGED << toggle_result, clipboard >>
    /\ UNCHANGED << pasteVars, configVars, callerVars >>

\* --------------------------------------------------------- update_shortcut
\* update_shortcut step 1: reject an illegal config, else store it under
\* the lock. update_shortcut is a command without async: a call runs to its
\* return before the next one starts, so at most one is in flight.
update_shortcut_store(config) ==
    /\ upd.pc = "idle"
    /\ ~IsValid(config) \/ lock = None
    /\ calls < MaxCalls
    /\ calls' = calls + 1
    /\ IF ~IsValid(config)
       THEN /\ upd_result' = [ok |-> FALSE, value |-> <<"InvalidConfig">>,
                               config |-> config]
            /\ upd_errs' = upd_errs + 1
            /\ UNCHANGED << shortcut, upd, save_result >>
       ELSE /\ shortcut' = config
            /\ upd' = [pc |-> "save", config |-> config]
            /\ save_result' = "none"
            /\ UNCHANGED << upd_result, upd_errs >>
    /\ UNCHANGED << registered_shortcut, os_shortcuts, config_file, clipboard >>
    /\ UNCHANGED << pasteVars, pauseVars, callerVars >>

\* save_shortcut_config that returns Ok without having written.
save_shortcut_config_writes_nothing(file, config, fs) ==
    CASE fs = "written"  -> [file |-> file, ret |-> "Ok"]
      [] fs = "no_file"  -> [file |-> file, ret |-> "Err"]
      [] fs = "no_write" -> [file |-> FileCorrupt, ret |-> "Err"]

\* save_shortcut_config under the given file-system outcome: the file is
\* written, or left alone (no path, no directory, File::create failed), or
\* left truncated by File::create when write_all failed; and its Result.
save_shortcut_config(file, config, fs) ==
    CASE fs = "written"  -> [file |-> FileWith(config), ret |-> "Ok"]
      [] fs = "no_file"  -> [file |-> file, ret |-> "Err"]
      [] fs = "no_write" -> [file |-> FileCorrupt, ret |-> "Err"]

\* update_shortcut_save of a command that gives way at the file write: a
\* second update_shortcut call, stored, registered and returned with Ok,
\* runs between the store and the registration of this one.
update_shortcut_save_yields ==
    /\ upd.pc = "save"
    /\ \E fs \in {"written", "no_file", "no_write"} :
          LET r == save_shortcut_config(config_file, upd.config, fs)
          IN  /\ config_file' = r.file
              /\ save_result' = r.ret
    /\ \E other \in {c \in SampleConfigs : IsValid(c)} :
          LET r == register_global_shortcut(registered_shortcut, os_shortcuts,
                                            other, TRUE)
          IN  /\ shortcut' = other
              /\ registered_shortcut' = r.registered
              /\ os_shortcuts' = r.bound
    /\ upd' = [upd EXCEPT !.pc = "register"]
    /\ UNCHANGED << upd_result, upd_errs, clipboard, calls >>
    /\ UNCHANGED << pasteVars, pauseVars, callerVars >>

\* update_shortcut step 2: save the config; a failure is only logged.
update_shortcut_save ==
    /\ upd.pc = "save"
    /\ \E fs \in {"written", "no_file", "no_write"} :
          LET r == save_shortcut_config(config_file, upd.config, fs)
          IN  /\ config_file' = r.file
              /\ save_result' = r.ret
    /\ upd' = [upd EXCEPT !.pc = "register"]
    /\ UNCHANGED << shortcut, registered_shortcut, os_shortcuts, upd_result,
                    upd_errs, clipboard, calls >>
    /\ UNCHANGED << pasteVars, pauseVars, callerVars >>

\* update_shortcut_register that returns the description whatever the
\* registration did.
update_shortcut_register_always_ok ==
    /\ upd.pc = "register"
    /\ \E os_ok \in BOOLEAN :
          LET r == register_global_shortcut(registered_shortcut, os_shortcuts,
                                            upd.config, os_ok)
          IN  /\ registered_shortcut' = r.registered
              /\ os_shortcuts' = r.bound
              /\ upd_result' = [ok |-> TRUE, value |-> get_description(upd.config),
                                 config |-> upd.config]
    /\ upd' = NoUpdate
    /\ UNCHANGED << shortcut, config_file, save_result, upd_errs, clipboard, calls >>
    /\ UNCHANGED << pasteVars, pauseVars, callerVars >>

\* update_shortcut step 3: register the global shortcut and return the
\* description, or the registration error.
update_shortcut_register ==
    /\ upd.pc = "register"
    /\ \E os_ok \in BOOLEAN :
          LET r == register_global_shortcut(registered_shortcut, os_shortcuts,
                                            upd.config, os_ok)
          IN  /\ registered_shortcut' = r.registered
              /\ os_shortcuts' = r.bound
              /\ upd_result' =
                    IF r.ok
                    THEN [ok |-> TRUE, value |-> get_description(upd.config),
                          config |-> upd.config]
                    ELSE [ok |-> FALSE,
                          value |-> <<"TriggerRebindFailed", "RestartMayBeNeeded">>,
                          config |-> upd.config]
              /\ upd_errs' = IF r.ok THEN upd_errs ELSE upd_errs + 1
    /\ upd' = NoUpdate
    /\ UNCHANGED << shortcut, config_file, save_result, clipboard, calls >>
    /\ UNCHANGED << pasteVars, pauseVars, callerVars >>

\* ------------------------------------------------- formatting a HotkeyConfig
\* config.to_tauri_accelerator() is called on some HotkeyConfig.
call_to_tauri_accelerator(config) ==
    /\ fmt' = [config |-> config,
               accelerator |-> Some(to_tauri_accelerator(config)),
               description |-> IF fmt.config = config THEN fmt.description ELSE None]
    /\ UNCHANGED << clipboard, calls, paste_args >>
    /\ UNCHANGED << pasteVars, configVars, pauseVars >>

\* config.get_description() is called on some HotkeyConfig.
call_get_description(config) ==
    /\ fmt' = [config |-> config,
               accelerator |-> IF fmt.config = config THEN fmt.accelerator ELSE None,
               description |-> Some(get_description(config))]
    /\ UNCHANGED << clipboard, calls, paste_args >>
    /\ UNCHANGED << pasteVars, configVars, pauseVars >>

\* -------------------------------------------------------------------- Next
Next ==
    \/ \E p \in Tasks : paste_check_paused(p)
    \/ \E p \in Tasks : paste_test_and_set(p)
    \/ \E p \in Tasks : paste_get_clipboard(p)
    \/ \E p \in Tasks : paste_poll(p)
    \/ \E p \in Tasks : paste_send_input(p)
    \/ \E p \in Tasks : paste_wake(p)
    \/ \E p \in Tasks : paste_finish(p)
    \/ toggle_pause
    \/ tray_pause
    \/ \E config \in SampleConfigs : update_shortcut_store(config)
    \/ update_shortcut_save
    \/ update_shortcut_register
    \/ \E config \in AllConfigs : call_to_tauri_accelerator(config)
    \/ \E config \in AllConfigs : call_get_description(config)
    \/ \E p \in RaceTasks : paste_lock(p)

Spec == Init /\ [][Next]_vars

\* The paste engine alone: the paste tasks and the two pause switches.
\* update_shortcut shares no variable with them.
NextPaste ==
    \/ \E p \in Tasks : paste_check_paused(p)
    \/ \E p \in Tasks : paste_test_and_set(p)
    \/ \E p \in Tasks : paste_get_clipboard(p)
    \/ \E p \in Tasks : paste_poll(p)
    \/ \E p \in Tasks : paste_send_input(p)
    \/ \E p \in Tasks : paste_wake(p)
    \/ \E p \in Tasks : paste_finish(p)
    \/ toggle_pause
    \/ tray_pause

\* The delay of a unit touches no other variable; here every call is made
\* with stand 50 and float 1, which leaves one delay.
InitPaste ==
    /\ Init
    /\ config_file = FileMissing
    /\ registered_shortcut # None
    /\ paste_args = [stand |-> 50, float |-> 1]

SpecPaste == InitPaste /\ [][NextPaste]_vars

\* The shortcut configuration alone.
NextConfig ==
    \/ \E config \in SampleConfigs : update_shortcut_store(config)
    \/ update_shortcut_save
    \/ update_shortcut_register

InitConfig ==
    /\ Init
    /\ clipboard = [k \in 1..(MaxLen + 1) |-> 0]
    /\ paste_args = [stand |-> 50, float |-> 1]

SpecConfig == InitConfig /\ [][NextConfig]_vars

\* The two string conversions of HotkeyConfig alone, on every HotkeyConfig.
NextFormat ==
    \/ \E config \in AllConfigs : call_to_tauri_accelerator(config)
    \/ \E config \in AllConfigs : call_get_description(config)

InitFormat ==
    /\ Init
    /\ config_file = FileMissing
    /\ registered_shortcut # None
    /\ clipboard = [k \in 1..(MaxLen + 1) |-> 0]
    /\ paste_args = [stand |-> 50, float |-> 1]

SpecFormat == InitFormat /\ [][NextFormat]_vars

\* The paste engine under every pair of delay arguments, on one clipboard
\* text of MaxLen ordinary characters.
InitDelay ==
    /\ Init
    /\ config_file = FileMissing
    /\ registered_shortcut # None
    /\ clipboard = [k \in 1..(MaxLen + 1) |-> IF k <= MaxLen THEN 97 ELSE 0]

SpecDelay == InitDelay /\ [][NextPaste]_vars

\* The paste calls racing one another: no pause switch, one task more, one
\* clipboard text of MaxLen ordinary characters.
NextRace ==
    \/ \E p \in RaceTasks : paste_check_paused(p)
    \/ \E p \in RaceTasks : paste_test_and_set(p)
    \/ \E p \in RaceTasks : paste_get_clipboard(p)
    \/ \E p \in RaceTasks : paste_poll(p)
    \/ \E p \in RaceTasks : paste_send_input(p)
    \/ \E p \in RaceTasks : paste_wake(p)
    \/ \E p \in RaceTasks : paste_finish(p)

InitRace ==
    /\ Init
    /\ config_file = FileMissing
    /\ registered_shortcut # None
    /\ clipboard = [k \in 1..(MaxLen + 1) |-> IF k <= MaxLen THEN 97 ELSE 0]
    /\ paste_args = [stand |-> 50, float |-> 1]

SpecRace == InitRace /\ [][NextRace]_vars

\* The paste engine and the pause switches with the taking of the lock as
\* a step of its own, on one clipboard text.
NextLock ==
    \/ NextPaste
    \/ \E p \in Tasks : paste_lock(p)

SpecLock == InitRace /\ [][NextLock]_vars

\* ------------------------------------------------------------ observations
\* The code unit a SendInput call of paste stands for: the Enter key is the
\* line feed, a Unicode key event carries its unit as scan code.
UnitOf(call) ==
    IF "UNICODE" \in call[1].dwFlags THEN call[1].wScan
    ELSE IF call[1].wVk = VK_RETURN THEN LF
    ELSE -1

UnitsOf(stream) == [k \in 1..Len(stream) |-> UnitOf(stream[k])]

\* The text of a clipboard buffer: the units before its first zero unit,
\* without the carriage returns.
FirstZero(data) == CHOOSE k \in 1..Len(data) :
                      data[k] = 0 /\ \A j \in 1..(k - 1) : data[j] # 0
NotCR(u) == u # CR
Content(data) == SelectSeq(SubSeq(data, 1, FirstZero(data) - 1), NotCR)

IsPrefix(a, b) == Len(a) <= Len(b) /\ SubSeq(b, 1, Len(a)) = a
IsStrictPrefix(a, b) == IsPrefix(a, b) /\ Len(a) < Len(b)

AllIdle == \A p \in Tasks : pc[p] = "idle"
ClipboardErrors == {"ClipboardOpenFailed", "ClipboardDataUnavailable",
                    "ClipboardUnlockFailed", "ClipboardCloseFailed"}

\* ---------------------------------------------------------------------- C1
\* C1 as stated: with two paste calls in all, the second a cancel request
\* made while the first was in its loop, the units sent in total are a
\* strict prefix of the clipboard text.
C1_StrictPrefixWhenSecondCallArrivesInLoop ==
    \A p \in Tasks :
      (n_paste = 2 /\ AllIdle /\ result[p].path = "cancel_request" /\ polled # {})
      => IsStrictPrefix(UnitsOf(input_stream), Content(clipboard))

\* C1, amended: with two paste calls in all, when the second call's
\* test-and-set finds is_pasting set while the first is in its loop, the
\* second sends nothing and the units sent in total are the prefix of the
\* clipboard text made of the units the first had polled for by then: a
\* strict prefix unless the test-and-set came after the first's last poll.
C1_PrefixUpToLastPollBeforeCancel ==
    \A p \in Tasks :
      (n_paste = 2 /\ AllIdle /\ result[p].path = "cancel_request" /\ polled # {})
      => \A t \in polled :
           /\ sent[p] = <<>>
           /\ UnitsOf(input_stream) = SubSeq(Content(clipboard), 1, t.n)
           /\ t.n < Len(Content(clipboard))
                 <=> IsStrictPrefix(UnitsOf(input_stream), Content(clipboard))
           /\ ~is_pasting

\* A cancel that arrived between two units: one unit out, one never sent.
C1_Witness ==
    \E p \in Tasks :
      /\ n_paste = 2 /\ AllIdle /\ result[p].path = "cancel_request"
      /\ \E t \in polled : t.n = 1 /\ t.asleep
      /\ Len(input_stream) = 1
      /\ Len(Content(clipboard)) = 2

\* ---------------------------------------------------------------------- C2
\* C2: a paste call made while is_paused is true returns the Suspended
\* error in its first step and changes neither is_pasting, the shortcut,
\* the clipboard handle, the input stream nor any other paste task.
C2_PausedPasteIsSuspended ==
    [][ (is_paused /\ n_paste' # n_paste)
        => \E p \in Tasks :
             /\ pc[p] = "idle" /\ pc'[p] = "idle"
             /\ result'[p] = [ret |-> "Suspended", path |-> "paused"]
             /\ sent'[p] = <<>>
             /\ \A q \in Tasks \ {p} : pc'[q] = pc[q] /\ result'[q] = result[q]
             /\ UNCHANGED << is_pasting, shortcut, is_paused, clip_held,
                             input_stream, config_file, registered_shortcut >>
      ]_vars

\* A paste call was suspended while another task was in its loop.
C2_Witness ==
    \E p, q \in Tasks :
      /\ result[p].ret = "Suspended" /\ pc[p] = "idle"
      /\ InLoop(q) /\ is_pasting /\ is_paused

\* ---------------------------------------------------------------------- C3
\* C3: a paste call whose clipboard read fails clears is_pasting, returns
\* the read error and sends nothing.
C3_FailedReadClearsIsPasting ==
    [][ \A p \in Tasks :
          (pc[p] = "read" /\ pc'[p] = "idle")
          => /\ result'[p].ret \in ClipboardErrors
             /\ input_stream' = input_stream
             /\ is_pasting' = FALSE
      ]_vars

\* ---------------------------------------------------------------------- C4
\* C4: at most one paste call at a time is past the test-and-set.
C4_AtMostOnePlayback ==
    Cardinality({p \in Tasks : Playing(p)}) <= 1

\* ---------------------------------------------------------------------- C5
\* A step in which the paste call of task p returns: at once when it was
\* invoked while paused, later from any other place.
PasteReturns(p) ==
    \/ pc[p] # "idle" /\ pc'[p] = "idle"
    \/ /\ pc[p] = "idle" /\ pc'[p] = "idle" /\ n_paste' = n_paste + 1
       /\ \A q \in Tasks : q < p => pc[q] # "idle"

\* is_pasting was true when the call of task p that is returning was invoked.
InvokedWhilePasting(p) == IF pc[p] = "idle" THEN is_pasting ELSE entry_pasting[p]

\* C5 as stated: a paste call invoked while is_pasting is true is a cancel
\* request, whatever the other fields are.
C5_InvokedWhilePastingIsCancel ==
    [][ \A p \in Tasks :
          (PasteReturns(p) /\ InvokedWhilePasting(p))
          => /\ result'[p] = [ret |-> "Ok", path |-> "cancel_request"]
             /\ is_pasting' = FALSE
      ]_vars

\* C5, amended: a paste call that has passed the pause check and finds
\* is_pasting true at its test-and-set clears it and returns Ok at once,
\* without reading the clipboard or sending anything, whatever the other
\* fields are at that moment.
C5_TestAndSetOnPastingIsCancel ==
    [][ \A p \in Tasks :
          (pc[p] = "test_and_set" /\ pc'[p] # "test_and_set" /\ is_pasting)
          => /\ is_pasting' = FALSE
             /\ pc'[p] = "idle"
             /\ result'[p] = [ret |-> "Ok", path |-> "cancel_request"]
             /\ sent'[p] = <<>>
             /\ UNCHANGED << clip_held, input_stream, is_paused, shortcut >>
      ]_vars

\* A cancel request went through while the engine was paused.
C5_Witness ==
    \E p \in Tasks :
      result[p].path = "cancel_request" /\ pc[p] = "idle" /\ is_paused

\* ---------------------------------------------------------------------- C6
\* A step that invokes update_shortcut, and the config it is invoked with.
UpdateInvoked ==
    calls' = calls + 1 /\ n_paste' = n_paste /\ is_paused' = is_paused
UpdateArgument == IF upd'.pc = "save" THEN upd'.config ELSE upd_result'.config

NoModifierNoIntercept(c) ==
    /\ c.alt = FALSE /\ c.ctrl = FALSE /\ c.shift = FALSE
    /\ c.left_ctrl = FALSE /\ c.right_ctrl = FALSE
    /\ c.intercept_ctrl_v = FALSE

\* C6: update_shortcut with a config that has no modifier and does not
\* intercept returns the validation error and changes neither the stored
\* shortcut, the config file nor the registered global shortcut.
C6_InvalidConfigIsRejected ==
    [][ (UpdateInvoked /\ NoModifierNoIntercept(UpdateArgument))
        => /\ upd'.pc = "idle"
           /\ upd_result' = [ok |-> FALSE, value |-> <<"InvalidConfig">>,
                              config |-> UpdateArgument]
           /\ UNCHANGED << shortcut, config_file, registered_shortcut,
                           os_shortcuts >>
      ]_vars

\* An invalid config was rejected after a valid one had been stored, saved
\* and registered.
C6_Witness ==
    /\ upd_result.value = <<"InvalidConfig">>
    /\ shortcut # DefaultConfig
    /\ config_file = FileWith(shortcut)
    /\ registered_shortcut = Some(to_tauri_accelerator(shortcut))

\* ---------------------------------------------------------------------- C7
\* C7: when update_shortcut returns after the registration step, the stored
\* shortcut is the new config; it returns the description of the new config
\* when the accelerator got bound and the registration error when not.
C7_RebindFailureKeepsNewConfig ==
    [][ (upd.pc = "register" /\ upd'.pc = "idle")
        => LET c == upd.config IN
           /\ shortcut' = c
           /\ upd_result'.config = c
           /\ IF to_tauri_accelerator(c) \in os_shortcuts'
              THEN /\ upd_result'.ok
                   /\ upd_result'.value = get_description(c)
              ELSE /\ ~upd_result'.ok
                   /\ upd_result'.value =
                        <<"TriggerRebindFailed", "RestartMayBeNeeded">>
      ]_vars

\* update_shortcut returned the registration error and the new config is
\* the stored one, with no accelerator bound for it.
C7_Witness ==
    /\ upd.pc = "idle"
    /\ upd_result.value = <<"TriggerRebindFailed", "RestartMayBeNeeded">>
    /\ shortcut = upd_result.config
    /\ shortcut # DefaultConfig
    /\ to_tauri_accelerator(shortcut) \notin os_shortcuts

\* ---------------------------------------------------------------------- C8
\* C8: after a toggle_pause call is_paused is the negation of what it was
\* and is the value the call returned; after two toggle_pause calls in a
\* row is_paused is what it was before the first.
C8_TogglePauseIsInvolution ==
    /\ paused_before # <<>> =>
          /\ is_paused = ~paused_before[Len(paused_before)]
          /\ toggle_result = Some(is_paused)
    /\ Len(paused_before) = 2 => is_paused = paused_before[1]

\* Two toggle_pause calls in a row, starting from the paused state.
C8_Witness ==
    /\ Len(paused_before) = 2
    /\ paused_before[1] = TRUE
    /\ is_paused

\* ---------------------------------------------------------------------- C9
\* C9: a step that changes is_paused changes nothing of any paste task nor
\* is_pasting; and when paste is called only once and gets past its pause
\* check and the clipboard read, it sends the whole clipboard text and
\* returns Ok on the completion path, whatever is_paused becomes meanwhile.
C9_PauseDoesNotStopPlayback ==
    /\ [][ is_paused' # is_paused
            => UNCHANGED << is_pasting, pc, utf16_units, i, sent, input_stream,
                            result >> ]_vars
    /\ [](\A p \in Tasks :
            (n_paste = 1 /\ pc[p] = "idle"
               /\ result[p].path \notin {"none", "paused", "read_failed"})
            => /\ result[p] = [ret |-> "Ok", path |-> "completed"]
               /\ UnitsOf(sent[p]) = Content(clipboard)
               /\ ~is_pasting)

\* A task is between two units of its playback and is_paused is true.
C9_Witness ==
    \E p \in Tasks :
      /\ n_paste = 1 /\ pc[p] = "sleep" /\ i[p] = 0
      /\ Len(utf16_units[p]) = 2
      /\ is_paused /\ is_pasting

\* --------------------------------------------------------------------- C10
\* C10: a paste call that returns on the completion path has sent exactly
\* the clipboard units before the first zero unit, without the carriage
\* returns and in order; no SendInput call ever carries a carriage return.
C10_PlaybackSendsContentWithoutCR ==
    /\ \A p \in Tasks :
         (pc[p] = "idle" /\ result[p].path = "completed")
         => UnitsOf(sent[p]) = Content(clipboard)
    /\ \A k \in 1..Len(input_stream) :
         /\ UnitOf(input_stream[k]) # CR
         /\ UnitOf(input_stream[k]) \in Alphabet \ {0}

\* A completed playback of "\r\n": only the Enter key was sent.
C10_Witness ==
    \E p \in Tasks :
      /\ pc[p] = "idle" /\ result[p].path = "completed"
      /\ clipboard[1] = CR /\ clipboard[2] = LF
      /\ UnitsOf(sent[p]) = <<LF>>
      /\ sent[p][1][1].wVk = VK_RETURN

\* --------------------------------------------------------------------- C11
\* The tokens of a "+"-joined string, and whether it is one: tokens at the
\* odd places, "+" at the even ones.
TokensOf(str) == [k \in 1..((Len(str) + 1) \div 2) |-> str[2 * k - 1]]
IsJoined(str) ==
    /\ Len(str) % 2 = 1
    /\ \A k \in 1..Len(str) : (str[k] = "+") <=> (k % 2 = 0)
CountOf(b) == IF b THEN 1 ELSE 0
AnyCtrl(c) == c.ctrl \/ c.left_ctrl \/ c.right_ctrl

\* C11: to_tauri_accelerator gives "Control+V" for every config that
\* intercepts; for every other config it gives, joined by "+": Alt if alt,
\* then one Ctrl token when a Ctrl flag is set (Control for ctrl, else
\* ControlLeft for left_ctrl, else ControlRight), then Shift if shift,
\* then the key, and nothing else; the default config gives "Alt+Control+V".
C11_AcceleratorTokens ==
    fmt.accelerator # None =>
      LET c == fmt.config
          out == fmt.accelerator[1]
          toks == TokensOf(out)
          n == Len(toks)
      IN  /\ c.intercept_ctrl_v => out = <<"Control", "+", "V">>
          /\ ~c.intercept_ctrl_v =>
                /\ IsJoined(out)
                /\ n = CountOf(c.alt) + CountOf(AnyCtrl(c)) + CountOf(c.shift) + 1
                /\ toks[n] = c.key
                /\ c.alt => toks[1] = "Alt"
                /\ c.shift => toks[n - 1] = "Shift"
                /\ c.ctrl => toks[CountOf(c.alt) + 1] = "Control"
                /\ (~c.ctrl /\ c.left_ctrl) => toks[CountOf(c.alt) + 1] = "ControlLeft"
                /\ (~c.ctrl /\ ~c.left_ctrl /\ c.right_ctrl)
                      => toks[CountOf(c.alt) + 1] = "ControlRight"
          /\ c = DefaultConfig => out = <<"Alt", "+", "Control", "+", "V">>

\* The accelerator of a config with every flag but ctrl and intercept set.
C11_Witness ==
    /\ fmt.config = HotkeyConfig(TRUE, FALSE, TRUE, TRUE, TRUE, "B", FALSE)
    /\ fmt.accelerator = Some(<<"Alt", "+", "ControlLeft", "+", "Shift", "+", "B">>)

\* --------------------------------------------------------------------- C12
\* The name get_description uses for a token of the accelerator.
DisplayName(token) ==
    CASE token = "Control"      -> "Ctrl"
      [] token = "ControlLeft"  -> "LeftCtrl"
      [] token = "ControlRight" -> "RightCtrl"
      [] OTHER                  -> token

\* C12: for a config that intercepts, get_description gives one fixed label
\* whatever the other fields are; for every other config it gives the
\* accelerator of the same config, token for token in the same order, with
\* the Ctrl tokens replaced by their display names.
C12_DescriptionFollowsAccelerator ==
    fmt.description # None =>
      LET c == fmt.config
          desc == fmt.description[1]
      IN  /\ c.intercept_ctrl_v => desc = <<"SystemCtrlV(intercepted)">>
          /\ (~c.intercept_ctrl_v /\ fmt.accelerator # None) =>
                LET acc == fmt.accelerator[1]
                IN  /\ Len(desc) = Len(acc)
                    /\ \A k \in 1..Len(acc) : desc[k] = DisplayName(acc[k])

\* Both strings of a config with ctrl, left_ctrl and shift set.
C12_Witness ==
    /\ fmt.config = HotkeyConfig(FALSE, TRUE, TRUE, TRUE, FALSE, "V", FALSE)
    /\ fmt.accelerator = Some(<<"Control", "+", "Shift", "+", "V">>)
    /\ fmt.description = Some(<<"Ctrl", "+", "Shift", "+", "V">>)

\* --------------------------------------------------------------------- C13
\* C13: for every stand, every float > 0 and every random value, the delay
\* a paste task sleeps for lies between stand and stand + float - 1.
C13_DelayWithinJitter ==
    \A p \in Tasks :
      (delay[p] # None /\ paste_args.float > 0)
      => /\ paste_args.stand <= delay[p][1]
         /\ delay[p][1] <= paste_args.stand + paste_args.float - 1

C15_StoredConfigIsValid ==
    /\ ~NoModifierNoIntercept(shortcut)
    /\ \A c \in AllConfigs :
         NoModifierNoIntercept(c)
         => registered_shortcut # Some(to_tauri_accelerator(c))

\* --------------------------------------------------------------------- C16
\* C16: when a cancel found a task asleep after its unit k and no paste call
\* has been invoked since, that task sends no further unit, and when it
\* returns it returns Ok and is_pasting is false.
C16_CancelDuringSleepStopsPlayback ==
    [][ \A t \in polled :
          (t.asleep /\ n_paste' = n_paste)
          => /\ sent'[t.task] = sent[t.task]
             /\ (pc[t.task] # "idle" /\ pc'[t.task] = "idle")
                  => (result'[t.task].ret = "Ok" /\ ~is_pasting')
      ]_vars

\* --------------------------------------------------------------------- C17
\* The step in which task p, one of two paste calls that were at their
\* test-and-set together with is_pasting false, runs its test-and-set.
RacerTestsAndSets(p) ==
    /\ pc[p] = "test_and_set" /\ pc'[p] # "test_and_set"
    /\ raced[p] /\ ~entry_pasting[p]
    /\ n_paste = 2

OtherRacerWaits(p) == \E q \in RaceTasks \ {p} : pc[q] = "test_and_set"

ReturnsOkWithoutReading(p) ==
    /\ pc'[p] = "idle"
    /\ result'[p] = [ret |-> "Ok", path |-> "cancel_request"]
    /\ UNCHANGED << clip_held, input_stream, utf16_units >>

\* C17 as stated: of two paste calls invoked together while unpaused and
\* with is_pasting false, the first to run its test-and-set goes on to read
\* the clipboard and the other returns Ok without reading it, whenever the
\* other runs its test-and-set.
C17_ExactlyOneRacerReads ==
    [][ \A p \in RaceTasks :
          RacerTestsAndSets(p)
          => IF OtherRacerWaits(p)
             THEN pc'[p] = "read" /\ is_pasting'
             ELSE ReturnsOkWithoutReading(p)
      ]_vars

\* C17, amended: the test-and-set is one step under the lock.  Of two paste
\* calls invoked together while unpaused and with is_pasting false, the
\* first to run it sets is_pasting and goes on to read; the other returns
\* Ok without reading when it finds is_pasting still set, and starts a
\* playback of its own when the first call has ended and cleared it.  With
\* two calls in all, never are both past the test-and-set at once.
C17_TestAndSetIsAtomic ==
    /\ [](n_paste <= 2 => Cardinality({p \in RaceTasks : Playing(p)}) <= 1)
    /\ [][ \A p \in RaceTasks :
             RacerTestsAndSets(p)
             => /\ OtherRacerWaits(p) => (~is_pasting /\ pc'[p] = "read" /\ is_pasting')
                /\ is_pasting => (ReturnsOkWithoutReading(p) /\ ~is_pasting')
                /\ ~is_pasting => (pc'[p] = "read" /\ is_pasting')
                /\ \A q \in RaceTasks \ {p} : pc'[q] = pc[q]
         ]_vars

\* The second of two racing calls is about to run its test-and-set while
\* the first is asleep in its playback.
C17_Witness ==
    \E p, q \in RaceTasks :
      /\ n_paste = 2 /\ pc[p] = "test_and_set" /\ raced[p] /\ ~entry_pasting[p]
      /\ pc[q] = "sleep" /\ is_pasting

\* --------------------------------------------------------------------- C18
\* C18: whenever no paste call is in flight is_pasting is false, and a paste
\* call that comes to its test-and-set while no other call is in flight
\* goes on to read the clipboard instead of returning as a cancel request.
C18_IdleMeansNotPasting ==
    /\ []((\A p \in RaceTasks : pc[p] = "idle") => ~is_pasting)
    /\ [][ \A p \in RaceTasks :
             ( /\ pc[p] = "test_and_set" /\ pc'[p] # "test_and_set"
               /\ \A q \in RaceTasks \ {p} : pc[q] = "idle" )
             => pc'[p] = "read"
         ]_vars

CriticalSection(p) ==
    \/ paste_check_paused(p)
    \/ paste_test_and_set(p)
    \/ paste_poll(p)
    \/ paste_finish(p)

\* C20: a paste task does not hold the PasteState lock while it reads the
\* clipboard, sends a key or sleeps; a task that holds the lock can always
\* run its critical section to the end, which frees the lock; and while a
\* playback is under way and the lock is free, toggle_pause, update_shortcut
\* and a further paste call can take it at once.
C20_LockNotHeldAcrossPlayback ==
    /\ \A p \in Tasks :
         pc[p] \in {"read", "send", "sleep"} => lock # Some(p)
    /\ \A p \in Tasks :
         lock = Some(p) => ENABLED CriticalSection(p)
    /\ ( /\ \E p \in Tasks : Playing(p)
         /\ lock = None /\ calls < MaxCalls /\ upd.pc = "idle" )
       => /\ ENABLED toggle_pause
          /\ ENABLED (\E config \in SampleConfigs : update_shortcut_store(config))
          /\ (\E q \in Tasks : pc[q] = "idle")
               => ENABLED (\E q \in Tasks : paste_check_paused(q))

\* A second paste call holds the lock for its test-and-set while the first
\* is asleep in its playback.
C20_Witness ==
    \E p, q \in Tasks :
      /\ pc[p] = "sleep" /\ is_pasting
      /\ pc[q] = "test_and_set" /\ lock = Some(q)

\* --------------------------------------------------------------------- C21
\* C21: when no update_shortcut call is in flight and every update_shortcut
\* call so far has returned Ok, the accelerator recorded as
\* registered_shortcut, which is the one accelerator bound in the global
\* shortcut manager, is to_tauri_accelerator of the stored shortcut.
C21_BoundAcceleratorIsOfStoredConfig ==
    (upd.pc = "idle" /\ upd_result.ok /\ upd_errs = 0)
    => /\ registered_shortcut = Some(to_tauri_accelerator(shortcut))
       /\ os_shortcuts = {to_tauri_accelerator(shortcut)}

\* Two update_shortcut calls have been made and both returned Ok, the second
\* with a config whose accelerator is not the default one, and that
\* accelerator is bound while the default one is not.
C21_Witness ==
    /\ upd.pc = "idle" /\ upd_result.ok /\ upd_errs = 0
    /\ calls = 2
    /\ shortcut = HotkeyConfig(FALSE, FALSE, TRUE, TRUE, FALSE, "B", FALSE)
    /\ to_tauri_accelerator(shortcut) \in os_shortcuts
    /\ to_tauri_accelerator(DefaultConfig) \notin os_shortcuts


====
